---- MODULE Spec2Model ----
(***************************************************************************)
(* The per-book session actor InterviewSession (latest revision of         *)
(* backend/src/durable_objects/InterviewSession.ts, lines 703-1294).       *)
(*                                                                         *)
(* A handler (webSocketMessage) runs atomically between two awaited        *)
(* external calls: awaits of the actor's own storage keep the input gate   *)
(* closed, awaits of D1, R2 and fetch (completion call, stream read) open  *)
(* it, so another handler may start or resume there.  Every action below   *)
(* is one such atomic stretch of one handler.                              *)
(***************************************************************************)
EXTENDS Integers, Sequences, FiniteSets, TLC

\* ------------------------------------------------------------------ bounds
MaxMsgs     == 2   \* client messages received after the initial state
MaxInFlight == 2   \* handlers suspended at an external call at one time
NumViewers  == 2   \* websockets that may attach
MaxFrags    == 2   \* text fragments one stream delivers
MaxCalls    == 2   \* function calls in one completion response
MaxNew      == 2   \* chapters one append_chapters call carries
MaxNotes    == 2   \* notes the model creates in one behaviour
\* ------------------------------------------------------- program constants
MaxTurns       == 5   \* while (keepGoing && turns < 5)
InitOutlineLen == 2   \* chapters of the outline a book is created with

Viewers == 1..NumViewers
Slots   == 1..MaxInFlight   \* frames of handlers that await external calls
Atomic  == 0                \* frame of a handler that awaits none
All     == 0          \* addressee of a broadcast

\* --------------------------------------------------------------- text values
\* A text is a record; two texts are equal exactly when the strings the code
\* builds are equal.  Draft and manuscript text is a sequence of tokens.
Txt(kind, n1, n2, n3, tail) ==
    [kind |-> kind, n1 |-> n1, n2 |-> n2, n3 |-> n3, tail |-> tail]
NoContent  == Txt("none", 0, 0, 0, "")          \* content undefined (tool turn)
UserText   == Txt("user", 0, 0, 0, "")          \* data.content of a message
ModelText  == Txt("model", 0, 0, 0, "")         \* response.text || "..."
Sep        == <<0, 0>>                            \* "\n\n"
Frag(r, k) == <<r, k>>     \* k-th fragment of the stream of the handler of message r

Chapter(i, t, s) == [index |-> i, title |-> t, summary |-> s]
OrigChapter(i)   == Chapter(i, 10 + i, 20 + i)
InitOutline      == [i \in 1..InitOutlineLen |-> OrigChapter(i)]
NoContext        == [loaded |-> FALSE, chapters |-> <<>>]   \* bookContext null
Context(chs)     == [loaded |-> TRUE, chapters |-> chs]

Note(id, c) == [id |-> id, content |-> c]
ClientId    == 100     \* an id made up by a client
IdPool      == (1..MaxNotes) \cup {ClientId}

\* --------------------------------------------------------------- handlers
\* A frame: the message type, where the handler is suspended (pc), the sender
\* (ws), the serial number of the message (id) and the handler's locals.
Idle == [type |-> "idle", pc |-> "idle", ws |-> 0, id |-> 0, turns |-> 0,
         inTurn |-> FALSE, k |-> 0, nextIndex |-> 0,
         read |-> <<>>, new |-> 0,
         cancelled |-> FALSE]   \* a cancel_generation was processed during its stream

VARIABLES
    history, notes, mode, currentDraft, fullManuscript, currentChapterIndex,
    isProcessing, abortController, bookContext, userId,
    storage,      \* state.storage: the persisted session layout
    db,           \* books.outline_json of this book in D1
    archive,      \* rows of the chapters table written by this session
    attached,     \* state.getWebSockets()
    hs,           \* the handlers suspended at an external call, by slot
    ev,           \* the last step: its operation, the message it serves, its input
    out,          \* the messages the last step sent, in the order sent
    nextId,       \* next fresh value of crypto.randomUUID()
    nmsgs,        \* client messages received
    limit         \* the value of nmsgs at which the behaviour takes no further message

vars == <<history, notes, mode, currentDraft, fullManuscript,
          currentChapterIndex, isProcessing, abortController, bookContext,
          userId, storage, db, archive, attached, hs, ev, out, nextId, nmsgs,
          limit>>

\* The state as one value, so that the code's sequential composition of calls
\* is composition of operators.
Cur == [history |-> history, notes |-> notes, mode |-> mode,
        currentDraft |-> currentDraft, fullManuscript |-> fullManuscript,
        currentChapterIndex |-> currentChapterIndex,
        isProcessing |-> isProcessing, abortController |-> abortController,
        bookContext |-> bookContext, userId |-> userId, storage |-> storage,
        db |-> db, archive |-> archive, attached |-> attached, hs |-> hs,
        ev |-> ev, out |-> out, nextId |-> nextId, nmsgs |-> nmsgs, limit |-> limit]

Install(s) ==
    /\ history' = s.history
    /\ notes' = s.notes
    /\ mode' = s.mode
    /\ currentDraft' = s.currentDraft
    /\ fullManuscript' = s.fullManuscript
    /\ currentChapterIndex' = s.currentChapterIndex
    /\ isProcessing' = s.isProcessing
    /\ abortController' = s.abortController
    /\ bookContext' = s.bookContext
    /\ userId' = s.userId
    /\ storage' = s.storage
    /\ db' = s.db
    /\ archive' = s.archive
    /\ attached' = s.attached
    /\ hs' = s.hs
    /\ ev' = s.ev
    /\ out' = s.out
    /\ nextId' = s.nextId
    /\ nmsgs' = s.nmsgs
    /\ limit' = s.limit

EmptyStorage ==
    [history |-> <<>>, notes |-> <<>>, mode |-> "interview",
     currentDraft |-> <<>>, fullManuscript |-> <<>>,
     currentChapterIndex |-> 1, bookContext |-> NoContext, userId |-> FALSE]

\* state.storage.put(key, value)
Put(s, key, value) == [s EXCEPT !.storage[key] = value]

\* ws.send / broadcast: a message is logged with its addressee
Msg(type, content, reset) == [type |-> type, content |-> content, reset |-> reset]
Send(s, h, to, m) ==
    [s EXCEPT !.out = Append(@, [to |-> to, type |-> m.type,
                                  content |-> m.content, reset |-> m.reset])]
Broadcast(s, h, m)    == Send(s, h, All, m)
BroadcastLog(s, h, t) == Broadcast(s, h, Msg("debug_log", t, FALSE))

\* ensureStateLoaded that takes the chapter index it was constructed with and
\* ignores the stored one
EnsureStateLoadedFirstChapter(s) ==
    [s EXCEPT !.history = s.storage.history,
              !.notes = s.storage.notes,
              !.mode = s.storage.mode,
              !.currentDraft = s.storage.currentDraft,
              !.fullManuscript = s.storage.fullManuscript,
              !.currentChapterIndex = 1,
              !.bookContext = s.storage.bookContext,
              !.userId = s.storage.userId]

\* ensureStateLoaded
EnsureStateLoaded(s) ==
    [s EXCEPT !.history = s.storage.history,
              !.notes = s.storage.notes,
              !.mode = s.storage.mode,
              !.currentDraft = s.storage.currentDraft,
              !.fullManuscript = s.storage.fullManuscript,
              !.currentChapterIndex = s.storage.currentChapterIndex,
              !.bookContext = s.storage.bookContext,
              !.userId = s.storage.userId]

\* A transcript turn (ThreadMessage); fc names its functionCall and fr its
\* functionResponse. The agent loop pushes tool turns with a functionResponse
\* only; nothing in the class builds a turn with a functionCall.
Turn(role, content) ==
    [role |-> role, content |-> content, fc |-> "none", fr |-> "none"]
ToolTurn(name) ==
    [role |-> "tool", content |-> NoContent, fc |-> "none", fr |-> name]

\* addMessageSafe: the state after the call; Added tells its result
IsDuplicate(s, role, content) ==
    /\ Len(s.history) > 0
    /\ s.history[Len(s.history)].role = role
    /\ s.history[Len(s.history)].content = content
Added(s, role, content) == ~IsDuplicate(s, role, content)
\* addMessageSafe without the comparison with the last turn
AddMessageUnchecked(s, h, role, content) ==
    LET t == [s EXCEPT !.history = Append(@, Turn(role, content))]
    IN  Put(t, "history", t.history)
AddMessageSafe(s, h, role, content) ==
    IF IsDuplicate(s, role, content)
    THEN BroadcastLog(s, h, "Prevented duplicate message insertion.")
    ELSE LET t == [s EXCEPT !.history = Append(@, Turn(role, content))]
         IN  Put(t, "history", t.history)

\* sendHistory
Visible(hist) ==
    SelectSeq(hist, LAMBDA m : m.content # NoContent /\ m.role \in {"user", "assistant"})
SendHistory(s, h, to) == Send(s, h, to, Msg("history", Visible(s.history), FALSE))

\* bookContext?.chapters?.find(c => c.index === i): position of the first match, 0 if none
FindChapter(ctx, i) ==
    LET hits == {j \in 1..Len(ctx.chapters) : ctx.chapters[j].index = i}
    IN  IF hits = {} THEN 0 ELSE CHOOSE j \in hits : \A l \in hits : j <= l

\* fullManuscript + (fullManuscript ? "\n\n" : "")
WithSep(m) == IF m # <<>> THEN m \o <<Sep>> ELSE m

\* the handler of slot h ends
Finish(s, h) == [s EXCEPT !.hs[h] = Idle]

\* ------------------------------------------------------------ Writer Agent
\* processTurn without the finally that resets isProcessing
EndTurnNoReset(s, h) == Finish(s, h)
\* processTurn's finally, reached when the handler of a message ends
EndTurn(s, h) == Finish([s EXCEPT !.isProcessing = FALSE], h)

\* the end of runWriterAgent: a run called from the agent loop returns into
\* processTurn, a run called by retry_chapter ends the handler
WriterEnd(s, h) == IF s.hs[h].inTurn THEN EndTurn(s, h) ELSE Finish(s, h)

\* runWriterAgent after gatherFullContext: the draft is reset, the reset chunk
\* is broadcast and the stream is requested
WriterStart(s, h) ==
    LET s1 == [s EXCEPT !.currentDraft = <<>>]
        s2 == Broadcast(s1, h, Msg("draft_chunk", WithSep(s1.fullManuscript), TRUE))
    IN  [s2 EXCEPT !.hs[h].pc = "stream_read", !.hs[h].k = 0]

\* runWriterAgent up to its first external call.  gatherFullContext reads D1
\* and R2 only when userId is set.
RunWriterAgent(s, h, inTurn) ==
    LET s1 == BroadcastLog(s, h, "Writing chapter...")
        s2 == [s1 EXCEPT !.hs[h].inTurn = inTurn]
    IN  IF s2.userId THEN [s2 EXCEPT !.hs[h].pc = "writer_context"]
        ELSE WriterStart(s2, h)

\* streamGemini: one resumption of the fetch or of reader.read()
StreamStep(s, h, outcome) ==
    CASE outcome = "fragment" ->
           LET text == Frag(s.hs[h].id, s.hs[h].k + 1)
               s1 == [s EXCEPT !.currentDraft = @ \o <<text>>, !.hs[h].k = @ + 1]
           IN  Broadcast(s1, h, Msg("draft_chunk", <<text>>, FALSE))
      [] outcome = "done" ->
           LET s1 == Put(s, "currentDraft", s.currentDraft)
           IN  WriterEnd(Broadcast(s1, h, Msg("draft_complete", <<>>, FALSE)), h)
      [] outcome = "error" ->
           LET s1 == BroadcastLog(s, h, "stream error")
           IN  WriterEnd(Broadcast(s1, h, Msg("draft_complete", <<>>, FALSE)), h)

\* --------------------------------------------------------- Interview Agent
\* the loop head without the cap on turns
AgentIterateUncapped(s, h) ==
    [s EXCEPT !.hs[h].turns = @ + 1, !.hs[h].pc = "agent_call",
              !.notes = s.storage.notes]

\* the head of the while loop of runInterviewerAgent
AgentIterate(s, h) ==
    IF s.hs[h].turns < MaxTurns
    THEN [s EXCEPT !.hs[h].turns = @ + 1, !.hs[h].pc = "agent_call",
                   !.notes = s.storage.notes]
    ELSE EndTurn(s, h)

\* the for loop with a finalize_interview that does not persist the phase
RECURSIVE ApplyCallsUnpersisted(_, _, _)
ApplyCallsUnpersisted(s, h, calls) ==
    IF calls = <<>>
    THEN LET s1 == Put(s, "history", s.history)
         IN  AgentIterate(Broadcast(s1, h, Msg("notes_sync", s1.notes, FALSE)), h)
    ELSE CASE Head(calls) = "create_note" ->
                LET s1 == [s EXCEPT !.notes = Append(@, Note(s.nextId, "ai")),
                                    !.nextId = @ + 1]
                    s2 == Put(s1, "notes", s1.notes)
                    s3 == [s2 EXCEPT !.history = Append(@, ToolTurn("create_note"))]
                IN  ApplyCallsUnpersisted(s3, h, Tail(calls))
           [] Head(calls) = "finalize_interview" ->
                LET s1 == [s EXCEPT !.mode = "writing"]
                    s2 == Broadcast(s1, h, Msg("mode_sync", "writing", FALSE))
                IN  RunWriterAgent(s2, h, TRUE)
           [] Head(calls) = "malformed" -> EndTurn(s, h)
           [] OTHER -> ApplyCallsUnpersisted(s, h, Tail(calls))

\* the for loop over response.functionCalls
RECURSIVE ApplyCalls(_, _, _)
ApplyCalls(s, h, calls) ==
    IF calls = <<>>
    THEN LET s1 == Put(s, "history", s.history)
         IN  AgentIterate(Broadcast(s1, h, Msg("notes_sync", s1.notes, FALSE)), h)
    ELSE CASE Head(calls) = "create_note" ->
                LET s1 == [s EXCEPT !.notes = Append(@, Note(s.nextId, "ai")),
                                    !.nextId = @ + 1]
                    s2 == Put(s1, "notes", s1.notes)
                    s3 == [s2 EXCEPT !.history = Append(@, ToolTurn("create_note"))]
                IN  ApplyCalls(s3, h, Tail(calls))
           [] Head(calls) = "finalize_interview" ->
                LET s1 == Put([s EXCEPT !.mode = "writing"], "mode", "writing")
                    s2 == Broadcast(s1, h, Msg("mode_sync", "writing", FALSE))
                IN  RunWriterAgent(s2, h, TRUE)
           [] Head(calls) = "malformed" -> EndTurn(s, h)
           [] OTHER -> ApplyCalls(s, h, Tail(calls))

\* the agent loop answering a failed completion call with a fallback reply
AgentStepFallback(s, h, resp) ==
    CASE resp.kind = "text" ->
           LET s1 == AddMessageSafe(s, h, "assistant", ModelText)
           IN  IF Added(s, "assistant", ModelText)
               THEN EndTurn(Broadcast(s1, h, Msg("response", ModelText, FALSE)), h)
               ELSE EndTurn(s1, h)
      [] resp.kind = "error" ->
           EndTurn(Broadcast(s, h, Msg("response", ModelText, FALSE)), h)
      [] resp.kind = "calls" -> ApplyCalls(s, h, resp.calls)

\* one resumption of callGemini in the agent loop
AgentStep(s, h, resp) ==
    CASE resp.kind = "text" ->
           LET s1 == AddMessageSafe(s, h, "assistant", ModelText)
           IN  IF Added(s, "assistant", ModelText)
               THEN EndTurn(Broadcast(s1, h, Msg("response", ModelText, FALSE)), h)
               ELSE EndTurn(s1, h)
      [] resp.kind = "error" -> EndTurn(s, h)
      [] resp.kind = "calls" -> ApplyCalls(s, h, resp.calls)

\* processTurn up to the first external call
ProcessTurn(s, h) ==
    LET s1 == [s EXCEPT !.isProcessing = TRUE]
    IN  IF s1.userId THEN [s1 EXCEPT !.hs[h].pc = "agent_context"]
        ELSE AgentIterate(s1, h)

\* the message handler without its guard on isProcessing and the phase
OnMessageUnguarded(s, h) ==
    LET s1 == AddMessageSafe(s, h, "user", UserText)
    IN  IF Added(s, "user", UserText) THEN ProcessTurn(s1, h)
        ELSE Finish(s1, h)

\* webSocketMessage, type message
OnMessage(s, h) ==
    IF s.isProcessing \/ s.mode = "writing" THEN Finish(s, h)
    ELSE LET s1 == AddMessageSafe(s, h, "user", UserText)
         IN  IF Added(s, "user", UserText) THEN ProcessTurn(s1, h)
             ELSE Finish(s1, h)

\* ------------------------------------------------------------------- init
\* this.fullManuscript + (this.fullManuscript && this.currentDraft ? "\n\n" : "") + this.currentDraft
TotalText(s) ==
    s.fullManuscript
      \o (IF s.fullManuscript # <<>> /\ s.currentDraft # <<>> THEN <<Sep>> ELSE <<>>)
      \o s.currentDraft

\* webSocketMessage, type init, up to the SELECT of refreshBookContext; the
\* frame keeps the outline D1 holds when the query is sent
OnInit(s, h) ==
    LET s1 == EnsureStateLoaded(s)
    IN  [s1 EXCEPT !.hs[h].pc = "init_refresh", !.hs[h].read = s1.db]

\* the rest of refreshBookContext with the row D1 returned, the four sync
\* messages, the draft so far, and the choice of greeting or history
InitSync(s, h, chapters) ==
    LET ws == s.hs[h].ws
        s1 == Put([s EXCEPT !.bookContext = Context(chapters)],
                  "bookContext", Context(chapters))
        s2 == IF ~s1.userId THEN Put([s1 EXCEPT !.userId = TRUE], "userId", TRUE)
              ELSE s1
        s3 == Send(s2, h, ws, Msg("outline", s2.bookContext, FALSE))
        s4 == Send(s3, h, ws, Msg("notes_sync", s3.notes, FALSE))
        s5 == Send(s4, h, ws, Msg("mode_sync", s4.mode, FALSE))
        s6 == Send(s5, h, ws, Msg("chapter_index_sync", s5.currentChapterIndex, FALSE))
        s7 == IF TotalText(s6) # <<>>
              THEN Send(s6, h, ws, Msg("draft_chunk", TotalText(s6), TRUE))
              ELSE s6
        s8 == IF s7.mode = "writing" /\ s7.currentDraft # <<>> /\ ~s7.isProcessing
              THEN Send(s7, h, ws, Msg("draft_complete", <<>>, FALSE))
              ELSE s7
    IN  IF s8.mode = "interview" /\ s8.history = <<>>
        THEN [s8 EXCEPT !.hs[h].pc = "init_context"]
        ELSE Finish(SendHistory(s8, h, ws), h)

\* the opening turn of a chapter; tail is the closing sentence
Opening(i, ch, tail) == Txt("greeting", i, ch.title, ch.summary, tail)

\* init that sends the transcript after the greeting as well
InitGreetResend(s, h) ==
    LET j == FindChapter(s.bookContext, s.currentChapterIndex)
        opening == Opening(s.currentChapterIndex, s.bookContext.chapters[j],
                           IF s.currentChapterIndex = 1 THEN "begin" ELSE "next phase")
    IN  IF j = 0 THEN Finish(s, h)
        ELSE LET s1 == AddMessageSafe(s, h, "assistant", opening)
                 s2 == IF Added(s, "assistant", opening)
                       THEN Broadcast(s1, h, Msg("response", opening, FALSE))
                       ELSE s1
             IN  Finish(SendHistory(s2, h, s.hs[h].ws), h)

\* init after gatherFullContext: the greeting through addMessageSafe
InitGreet(s, h) ==
    LET j == FindChapter(s.bookContext, s.currentChapterIndex)
        opening == Opening(s.currentChapterIndex, s.bookContext.chapters[j],
                           IF s.currentChapterIndex = 1 THEN "begin" ELSE "next phase")
    IN  IF j = 0 THEN Finish(s, h)
        ELSE LET s1 == AddMessageSafe(s, h, "assistant", opening)
             IN  IF Added(s, "assistant", opening)
                 THEN Finish(Broadcast(s1, h, Msg("response", opening, FALSE)), h)
                 ELSE Finish(SendHistory(s1, h, s.hs[h].ws), h)

\* ------------------------------------------------------------------ notes
\* patch_note that changes the notes in memory and does not persist them
OnPatchNoteUnsaved(s, h, id, content) ==
    Finish([s EXCEPT !.notes = [j \in 1..Len(s.notes) |->
                        IF s.notes[j].id = id THEN [s.notes[j] EXCEPT !.content = content]
                        ELSE s.notes[j]]], h)
\* webSocketMessage, type patch_note
OnPatchNote(s, h, id, content) ==
    LET s1 == [s EXCEPT !.notes = [j \in 1..Len(s.notes) |->
                          IF s.notes[j].id = id THEN [s.notes[j] EXCEPT !.content = content]
                          ELSE s.notes[j]]]
    IN  Finish(Put(s1, "notes", s1.notes), h)

\* webSocketMessage, type update_notes; a payload that is no array counts as []
ResyncNotes(server, clientNotes) == clientNotes
\* update_notes without the test clientNotes.length > 0
OnUpdateNotesUnguarded(s, h, payload) ==
    LET clientNotes == IF payload.isArray THEN payload.items ELSE <<>>
        s1 == [s EXCEPT !.notes = ResyncNotes(s.notes, clientNotes)]
        s2 == Put(s1, "notes", s1.notes)
    IN  Finish(Send(s2, h, s.hs[h].ws, Msg("notes_sync", s2.notes, FALSE)), h)
OnUpdateNotes(s, h, payload) ==
    LET clientNotes == IF payload.isArray THEN payload.items ELSE <<>>
    IN  IF Len(clientNotes) > 0
        THEN LET s1 == [s EXCEPT !.notes = ResyncNotes(s.notes, clientNotes)]
                 s2 == Put(s1, "notes", s1.notes)
             IN  Finish(Send(s2, h, s.hs[h].ws, Msg("notes_sync", s2.notes, FALSE)), h)
        ELSE Finish(s, h)

\* ------------------------------------------------------ retry and cancel
\* webSocketMessage, type retry_chapter
OnRetryChapter(s, h) ==
    LET s1 == Put([s EXCEPT !.currentDraft = <<>>], "currentDraft", <<>>)
        s2 == Broadcast(s1, h, Msg("draft_chunk", WithSep(s1.fullManuscript), TRUE))
    IN  RunWriterAgent(s2, h, FALSE)

\* webSocketMessage, type cancel_generation; abortController is never assigned
\* a controller, so the branch that aborts is taken only when it is set
OnCancelGeneration(s, h) ==
    LET s0 == IF s.abortController # "null" THEN [s EXCEPT !.abortController = "null"]
              ELSE s
        s1 == Put([s0 EXCEPT !.mode = "interview"], "mode", "interview")
        s2 == [s1 EXCEPT !.hs = [g \in DOMAIN s1.hs |->
                  IF s1.hs[g].pc = "stream_read"
                  THEN [s1.hs[g] EXCEPT !.cancelled = TRUE] ELSE s1.hs[g]]]
    IN  Finish(Broadcast(s2, h, Msg("mode_sync", "interview", FALSE)), h)

\* ----------------------------------------------------------- next chapter
\* resetForNextChapter up to the INSERT into chapters, whose bound values are
\* the chapter index and the draft at the time of the call
OnNextChapter(s, h) ==
    LET row == [chapterIndex |-> s.currentChapterIndex, content |-> s.currentDraft]
    IN  [s EXCEPT !.archive = Append(@, row), !.hs[h].pc = "next_insert"]

\* the archival with = in the place of +=
ArchivedOverwrite(manuscript, draft) == draft
\* this.fullManuscript += (this.fullManuscript ? "\n\n" : "") + this.currentDraft
Archived(manuscript, draft) == WithSep(manuscript) \o draft

\* the reset that leaves the notes of the chapter in place
NextChapterResetKeepsNotes(s, h) ==
    LET s1 == [s EXCEPT !.fullManuscript = WithSep(s.fullManuscript) \o s.currentDraft,
                        !.currentDraft = <<>>,
                        !.currentChapterIndex = @ + 1,
                        !.history = <<>>,
                        !.mode = "interview"]
        s2 == [s1 EXCEPT !.storage = [@ EXCEPT !.history = s1.history,
                             !.mode = s1.mode,
                             !.currentDraft = s1.currentDraft,
                             !.fullManuscript = s1.fullManuscript,
                             !.currentChapterIndex = s1.currentChapterIndex]]
        s3 == Broadcast(s2, h, Msg("chapter_index_sync", s2.currentChapterIndex, FALSE))
        j  == FindChapter(s3.bookContext, s3.currentChapterIndex)
        opening == Opening(s3.currentChapterIndex, s3.bookContext.chapters[j], "move on")
    IN  IF j = 0 THEN Finish(s3, h)
        ELSE Finish(Broadcast(AddMessageSafe(s3, h, "assistant", opening), h,
                              Msg("response", opening, FALSE)), h)

\* resetForNextChapter after the INSERT
NextChapterReset(s, h) ==
    LET s1 == [s EXCEPT !.fullManuscript = Archived(s.fullManuscript, s.currentDraft),
                        !.currentDraft = <<>>,
                        !.currentChapterIndex = @ + 1,
                        !.history = <<>>,
                        !.notes = <<>>,
                        !.mode = "interview"]
        s2 == [s1 EXCEPT !.storage = [@ EXCEPT !.history = s1.history,
                             !.notes = s1.notes, !.mode = s1.mode,
                             !.currentDraft = s1.currentDraft,
                             !.fullManuscript = s1.fullManuscript,
                             !.currentChapterIndex = s1.currentChapterIndex]]
        s3 == Broadcast(s2, h, Msg("chapter_index_sync", s2.currentChapterIndex, FALSE))
        j  == FindChapter(s3.bookContext, s3.currentChapterIndex)
        opening == Opening(s3.currentChapterIndex, s3.bookContext.chapters[j], "move on")
    IN  IF j = 0 THEN Finish(s3, h)
        ELSE Finish(Broadcast(AddMessageSafe(s3, h, "assistant", opening), h,
                              Msg("response", opening, FALSE)), h)

\* -------------------------------------------------------- Outline Expander
\* the catch of runOutlineExpander
ExpandFailed(s, h) ==
    Finish(Broadcast(BroadcastLog(s, h, "Expansion Error"), h,
                     Msg("error", "Expansion Failed", FALSE)), h)

\* runOutlineExpander up to callGemini; nextIndex is computed before the call
OnExpandOutline(s, h) ==
    LET s1 == BroadcastLog(s, h, "Expanding outline...")
    IN  [s1 EXCEPT !.hs[h].pc = "expand_call",
                   !.hs[h].nextIndex = Len(s1.bookContext.chapters) + 1]

\* new_chapters.map(c => ({index: currentIndex++, title, summary}))
Formatted(nextIndex, k) == [j \in 1..k |-> Chapter(nextIndex + j - 1, 30 + j, 40 + j)]

\* the completion call returned: resp.kind is error (callGemini threw), nocall
\* (no append_chapters call with an array) or append with resp.k new chapters
ExpandStep(s, h, resp) ==
    CASE resp.kind = "error" -> ExpandFailed(s, h)
      [] resp.kind = "nocall" ->
           Finish(Broadcast(BroadcastLog(s, h, "AI generated no chapters."), h,
                            Msg("error", "AI did not generate any new chapters.", FALSE)), h)
      [] resp.kind = "append" ->
           IF ~s.bookContext.loaded THEN ExpandFailed(s, h)
           ELSE LET chs == s.bookContext.chapters \o Formatted(s.hs[h].nextIndex, resp.k)
                    s1 == [s EXCEPT !.bookContext = Context(chs)]
                    s2 == Put(s1, "bookContext", s1.bookContext)
                IN  [s2 EXCEPT !.db = chs, !.hs[h].pc = "expand_update",
                               !.hs[h].new = resp.k]

\* after the UPDATE of books: reset, broadcasts and the greeting;
\* formattedChapters[0] is undefined for an empty list and sendHistory(null)
\* throws, both end in the catch
ExpandReset(s, h) ==
    LET s0 == BroadcastLog(s, h, "Added new chapters.")
        s1 == [s0 EXCEPT !.history = <<>>, !.mode = "interview", !.notes = <<>>]
        s2 == [s1 EXCEPT !.storage = [@ EXCEPT !.history = <<>>, !.mode = "interview",
                                                !.notes = <<>>]]
        s3 == Broadcast(s2, h, Msg("outline", s2.bookContext, FALSE))
        s4 == Broadcast(s3, h, Msg("mode_sync", s3.mode, FALSE))
        s5 == Broadcast(s4, h, Msg("notes_sync", s4.notes, FALSE))
        newChapter == Formatted(s.hs[h].nextIndex, s.hs[h].new)[1]
        opening == Opening(s5.currentChapterIndex, newChapter, "get started")
    IN  IF s.hs[h].new = 0 THEN ExpandFailed(s5, h)
        ELSE ExpandFailed(AddMessageSafe(s5, h, "assistant", opening), h)

\* ------------------------------------------------------------ environment
\* what a completion call of the Interview Agent may return
CallNames == {"create_note", "finalize_interview", "other", "malformed"}
\* calls that follow a finalize_interview or a call that throws are never
\* looked at, so such a call comes last
CallSeqs  == {c \in UNION {[1..n -> CallNames] : n \in 1..MaxCalls} :
                \A j \in 1..(Len(c) - 1) : c[j] \in {"create_note", "other"}}
Count(calls, name) == Cardinality({j \in 1..Len(calls) : calls[j] = name})
AgentResponses(s) ==
    {[kind |-> "text", calls |-> <<>>], [kind |-> "error", calls |-> <<>>]}
      \cup {[kind |-> "calls", calls |-> c] : c \in
              {c \in CallSeqs :
                 s.nextId - 1 + Count(c, "create_note") <= MaxNotes}}

\* what the completion call of the Outline Expander may return
ExpandResponses ==
    {[kind |-> "error", k |-> 0], [kind |-> "nocall", k |-> 0]}
      \cup {[kind |-> "append", k |-> k] : k \in 0..MaxNew}

\* what a client may send as the content of update_notes
ClientLists ==
    {<<>>} \cup {<<Note(i, "c")>> : i \in IdPool}
           \cup {<<Note(i, "c"), Note(j, "c")>> : i, j \in IdPool}
ClientPayloads ==
    {[isArray |-> TRUE, items |-> l] : l \in {l \in ClientLists :
        \A i, j \in 1..Len(l) : i < j => l[i].id < l[j].id}}
      \cup {[isArray |-> FALSE, items |-> <<>>]}

\* ---------------------------------------------------------------- actions
Quiescent(s) == \A h \in Slots : s.hs[h] = Idle
FreeSlot(s)  == CHOOSE h \in Slots : s.hs[h] = Idle /\ \A g \in Slots : s.hs[g] = Idle => h <= g

\* a step starts with nothing sent yet
Event(op, id, arg) == [op |-> op, id |-> id, arg |-> arg]
Step(s, op, id, arg) == [s EXCEPT !.out = <<>>, !.ev = Event(op, id, arg)]

\* the handler of frame h resumes with the input arg
Resume(s, h, arg) == Step(s, s.hs[h].pc, s.hs[h].id, arg)

\* the arrival of a client message from ws with the input arg: its frame is h
Begin(s, type, ws, h, arg) ==
    [Step(s, type, s.nmsgs + 1, arg) EXCEPT
        !.nmsgs = @ + 1,
        !.hs[h] = [Idle EXCEPT !.type = type, !.pc = "run", !.ws = ws,
                                 !.id = s.nmsgs + 1]]
CanReceive(ws)  == nmsgs < limit /\ ws \in attached
CanSuspend      == \E h \in Slots : hs[h] = Idle

\* fetch /websocket: the socket is accepted
Attach(s, ws) == [Step(s, "fetch", 0, ws) EXCEPT !.attached = @ \cup {ws}]

\* the constructor after an eviction: state is reloaded from storage
Construct(s) ==
    [EnsureStateLoaded(Step(s, "construct", 0, 0)) EXCEPT
        !.isProcessing = FALSE, !.abortController = "null"]

\* the session of a book that was never connected to
Fresh ==
    [history |-> <<>>, notes |-> <<>>, mode |-> "interview", currentDraft |-> <<>>,
     fullManuscript |-> <<>>, currentChapterIndex |-> 1, isProcessing |-> FALSE,
     abortController |-> "null", bookContext |-> NoContext, userId |-> FALSE,
     storage |-> EmptyStorage, db |-> InitOutline, archive |-> <<>>,
     attached |-> {}, hs |-> [h \in {Atomic} \cup Slots |-> Idle],
     ev |-> Event("construct", 0, 0), out |-> <<>>,
     nextId |-> 1, nmsgs |-> 0, limit |-> 0]

\* Sessions as earlier sequential runs of the handlers leave them:
\* after the first init,
Greeted ==
    LET a == OnInit(Begin(Attach(Fresh, 1), "init", 1, 1, 0), 1)
    IN  InitGreet(InitSync(a, 1, a.db), 1)
\* after a user turn in which the model creates a note and finalizes, and the
\* stream of two fragments ends,
Drafted ==
    LET a == AgentIterate(OnMessage(Begin(Greeted, "message", 1, 1, 0), 1), 1)
        b == WriterStart(AgentStep(a, 1, [kind |-> "calls",
                 calls |-> <<"create_note", "finalize_interview">>]), 1)
    IN  StreamStep(StreamStep(StreamStep(b, 1, "fragment"), 1, "fragment"), 1, "done")
\* after next_chapter archived that draft,
SecondChapter == NextChapterReset(OnNextChapter(Begin(Drafted, "next_chapter", 1, 1, 0), 1), 1)
\* and after a second next_chapter moved past the end of the outline.
PastTheEnd == NextChapterReset(OnNextChapter(Begin(SecondChapter, "next_chapter", 1, 1, 0), 1), 1)

Seeds == {Fresh, Greeted, Drafted, SecondChapter, PastTheEnd}

\* The constructor ran on some such session; MaxMsgs messages follow.
Init ==
    \E seed \in Seeds :
        LET s == Construct(seed)
        IN  /\ history = s.history
            /\ notes = s.notes
            /\ mode = s.mode
            /\ currentDraft = s.currentDraft
            /\ fullManuscript = s.fullManuscript
            /\ currentChapterIndex = s.currentChapterIndex
            /\ isProcessing = s.isProcessing
            /\ abortController = s.abortController
            /\ bookContext = s.bookContext
            /\ userId = s.userId
            /\ storage = s.storage
            /\ db = s.db
            /\ archive = s.archive
            /\ attached = s.attached
            /\ hs = s.hs
            /\ ev = s.ev
            /\ out = s.out
            /\ nextId = s.nextId
            /\ nmsgs = s.nmsgs
            /\ limit = s.nmsgs + MaxMsgs

Fetch(ws) ==
    /\ ws \notin attached
    /\ Install(Attach(Cur, ws))

ColdStart ==
    /\ Quiescent(Cur)
    /\ Install(Construct(Cur))

RecvInit(ws) ==
    /\ CanReceive(ws) /\ CanSuspend
    /\ Install(OnInit(Begin(Cur, "init", ws, FreeSlot(Cur), 0), FreeSlot(Cur)))

RecvMessage(ws) ==
    /\ CanReceive(ws) /\ CanSuspend
    /\ Install(OnMessage(Begin(Cur, "message", ws, FreeSlot(Cur), 0), FreeSlot(Cur)))

RecvPatchNote(ws, id) ==
    /\ CanReceive(ws)
    /\ Install(OnPatchNote(Begin(Cur, "patch_note", ws, Atomic, id), Atomic, id, "p"))

RecvUpdateNotes(ws, payload) ==
    /\ CanReceive(ws)
    /\ Install(OnUpdateNotes(Begin(Cur, "update_notes", ws, Atomic, payload), Atomic, payload))

RecvRetryChapter(ws) ==
    /\ CanReceive(ws) /\ CanSuspend
    /\ Install(OnRetryChapter(Begin(Cur, "retry_chapter", ws, FreeSlot(Cur), 0), FreeSlot(Cur)))

RecvCancelGeneration(ws) ==
    /\ CanReceive(ws)
    /\ Install(OnCancelGeneration(Begin(Cur, "cancel_generation", ws, Atomic, 0), Atomic))

RecvNextChapter(ws) ==
    /\ CanReceive(ws) /\ CanSuspend
    /\ Install(OnNextChapter(Begin(Cur, "next_chapter", ws, FreeSlot(Cur), 0), FreeSlot(Cur)))

RecvExpandOutline(ws) ==
    /\ CanReceive(ws) /\ CanSuspend
    /\ Install(OnExpandOutline(Begin(Cur, "expand_outline", ws, FreeSlot(Cur), 0), FreeSlot(Cur)))

\* the SELECT of refreshBookContext returns the outline D1 held when the query
\* was sent or the one it holds now
InitRefreshed(h, chapters) ==
    /\ hs[h].pc = "init_refresh"
    /\ Install(InitSync(Resume(Cur, h, chapters), h, chapters))

InitContextGathered(h) ==
    /\ hs[h].pc = "init_context"
    /\ Install(InitGreet(Resume(Cur, h, 0), h))

AgentContextGathered(h) ==
    /\ hs[h].pc = "agent_context"
    /\ Install(AgentIterate(Resume(Cur, h, 0), h))

CompletionReturns(h, resp) ==
    /\ hs[h].pc = "agent_call"
    /\ Install(AgentStep(Resume(Cur, h, resp), h, resp))

WriterContextGathered(h) ==
    /\ hs[h].pc = "writer_context"
    /\ Install(WriterStart(Resume(Cur, h, 0), h))

StreamDelivers(h) ==
    /\ hs[h].pc = "stream_read"
    /\ hs[h].k < MaxFrags
    /\ Install(StreamStep(Resume(Cur, h, "fragment"), h, "fragment"))

StreamEnds(h) ==
    /\ hs[h].pc = "stream_read"
    /\ Install(StreamStep(Resume(Cur, h, "done"), h, "done"))

StreamFails(h) ==
    /\ hs[h].pc = "stream_read"
    /\ Install(StreamStep(Resume(Cur, h, "error"), h, "error"))

ArchiveInserted(h) ==
    /\ hs[h].pc = "next_insert"
    /\ Install(NextChapterReset(Resume(Cur, h, 0), h))

ExpanderReturns(h, resp) ==
    /\ hs[h].pc = "expand_call"
    /\ Install(ExpandStep(Resume(Cur, h, resp), h, resp))

OutlineUpdated(h) ==
    /\ hs[h].pc = "expand_update"
    /\ Install(ExpandReset(Resume(Cur, h, 0), h))

Next ==
    \/ \E ws \in Viewers : Fetch(ws)
    \/ ColdStart
    \/ \E ws \in Viewers : RecvInit(ws)
    \/ \E ws \in Viewers : RecvMessage(ws)
    \/ \E ws \in Viewers, id \in IdPool : RecvPatchNote(ws, id)
    \/ \E ws \in Viewers, payload \in ClientPayloads : RecvUpdateNotes(ws, payload)
    \/ \E ws \in Viewers : RecvRetryChapter(ws)
    \/ \E ws \in Viewers : RecvCancelGeneration(ws)
    \/ \E ws \in Viewers : RecvNextChapter(ws)
    \/ \E ws \in Viewers : RecvExpandOutline(ws)
    \/ \E h \in Slots : \E chapters \in {hs[h].read, db} : InitRefreshed(h, chapters)
    \/ \E h \in Slots : InitContextGathered(h)
    \/ \E h \in Slots : AgentContextGathered(h)
    \/ \E h \in Slots, resp \in AgentResponses(Cur) : CompletionReturns(h, resp)
    \/ \E h \in Slots : WriterContextGathered(h)
    \/ \E h \in Slots : StreamDelivers(h)
    \/ \E h \in Slots : StreamEnds(h)
    \/ \E h \in Slots : StreamFails(h)
    \/ \E h \in Slots : ArchiveInserted(h)
    \/ \E h \in Slots, resp \in ExpandResponses : ExpanderReturns(h, resp)
    \/ \E h \in Slots : OutlineUpdated(h)

Spec == Init /\ [][Next]_vars

\* The same handlers when the actor takes a message only while no handler is
\* suspended: the messages are processed one at a time.
SerialNext == Next /\ (nmsgs' # nmsgs => Quiescent(Cur))
SpecSerial == Init /\ [][SerialNext]_vars

\* ================================================================== claims
Ids(ns)        == {ns[j].id : j \in 1..Len(ns)}
TextOf(ns, id) == ns[CHOOSE j \in 1..Len(ns) : ns[j].id = id].content
IsPrefix(a, b) == Len(a) <= Len(b) /\ SubSeq(b, 1, Len(a)) = a
Sent(o, type)  == SelectSeq(o, LAMBDA m : m.type = type)
InFlight       == {h \in Slots : hs[h] # Idle}
UserTurnBefore(hist, j) == \E i \in 1..(j - 1) : hist[i].role = "user"

\* C1 (as the claim states it): the final state of concurrently submitted
\* messages is the final state of processing them one at a time in some order.
\* Processed one at a time, a tool-result turn is in the transcript only after
\* the user turn whose agent loop produced it (this formula holds under
\* SpecSerial), so in a final state of Spec every tool turn follows a user turn.
C1_FinalStateIsSerial ==
    InFlight = {} =>
        \A j \in 1..Len(history) : history[j].role = "tool" => UserTurnBefore(history, j)

\* C2 (as the claim states it): after update_notes the notes contain every id
\* of the server's notes and of the client's list, with the client's text for
\* the ids in both.
C2_ResyncMerges ==
    [][ev'.op = "update_notes" =>
         LET client == IF ev'.arg.isArray THEN ev'.arg.items ELSE <<>>
         IN  /\ Ids(notes) \cup Ids(client) \subseteq Ids(notes')
             /\ \A id \in Ids(notes) \cap Ids(client) :
                    TextOf(notes', id) = TextOf(client, id)]_vars

\* C3: update_notes with an empty list or a payload that is no list leaves the
\* notes in memory and the persisted notes as they were.
C3_EmptyResyncKeepsNotes ==
    [][(ev'.op = "update_notes" /\ (~ev'.arg.isArray \/ ev'.arg.items = <<>>)) =>
         /\ notes' = notes
         /\ storage'.notes = storage.notes]_vars
C3_Witness ==
    /\ ev.op = "update_notes" /\ ev.arg.isArray /\ ev.arg.items = <<>>
    /\ Len(notes) = 2 /\ storage.notes = notes

\* C4: a turn offered for appending (the user turn of an accepted message, the
\* assistant text of a completion, the opening of init) that equals the last
\* turn in role and content leaves the transcript as it is and no response is
\* broadcast.  The openings of next_chapter and of an expansion are offered
\* to a transcript the same step has emptied.
LastIs(role, content) ==
    /\ Len(history) > 0
    /\ history[Len(history)].role = role
    /\ history[Len(history)].content = content
OfferedTurn ==
    \/ /\ ev'.op = "message" /\ ~isProcessing /\ mode = "interview"
       /\ LastIs("user", UserText)
    \/ /\ ev'.op = "agent_call" /\ ev'.arg.kind = "text"
       /\ LastIs("assistant", ModelText)
    \/ /\ ev'.op = "init_context"
       /\ FindChapter(bookContext, currentChapterIndex) # 0
       /\ LastIs("assistant",
                 Opening(currentChapterIndex,
                         bookContext.chapters[FindChapter(bookContext, currentChapterIndex)],
                         IF currentChapterIndex = 1 THEN "begin" ELSE "next phase"))
C4_DuplicateTurnIsNoOp ==
    [][OfferedTurn => history' = history /\ Sent(out', "response") = <<>>]_vars
C4_Witness ==
    /\ ev.op = "init_context"
    /\ Len(history) = 1 /\ history[1].content.kind = "greeting"
    /\ Sent(out, "response") = <<>> /\ Len(Sent(out, "history")) = 1

\* C5: a message received while the phase is writing or isProcessing is true
\* changes nothing of the session, leaves no handler behind and sends nothing.
C5_BusyMessageDropped ==
    [][(ev'.op = "message" /\ (isProcessing \/ mode = "writing")) =>
         /\ UNCHANGED <<history, notes, mode, currentDraft, fullManuscript,
                        currentChapterIndex, isProcessing, bookContext, storage,
                        db, archive, hs, nextId>>
         /\ out' = <<>>]_vars
C5_Witness ==
    /\ ev.op = "message" /\ isProcessing /\ mode = "interview"
    /\ \A h \in Slots : hs[h].id # ev.id
    /\ \E h \in Slots : hs[h].pc = "agent_call"

\* C6 (as the claim states it): an archival leaves the manuscript followed by
\* the draft, nothing between them.
C6_PlainConcatenation ==
    [][ev'.op = "next_insert" => fullManuscript' = fullManuscript \o currentDraft]_vars
\* C6 (amended): an archival appends to the manuscript the draft, after the
\* separator "\n\n" when the manuscript was not empty; no other step changes
\* the manuscript, so the manuscript before a step is a prefix of the one after.
C6_ManuscriptAppendOnly ==
    [][/\ ev'.op = "next_insert" =>
            fullManuscript' = (IF fullManuscript = <<>> THEN currentDraft
                               ELSE fullManuscript \o <<Sep>> \o currentDraft)
       /\ ev'.op # "next_insert" => fullManuscript' = fullManuscript
       /\ IsPrefix(fullManuscript, fullManuscript')
       /\ storage'.fullManuscript = fullManuscript']_vars
C6_Witness ==
    /\ ev.op = "next_insert"
    /\ \E i, j \in 1..Len(fullManuscript) :
          /\ i + 1 < j
          /\ fullManuscript[i] # Sep /\ fullManuscript[i + 1] = Sep
          /\ fullManuscript[j] # Sep
    /\ Len(archive) = 2

\* C7 (as the claim states it): an expansion that appends k chapters to an
\* outline of length L gives them the indices L+1 .. L+k and leaves the L
\* chapters as they were, also with two expansions in flight.
C7_ExpansionIndices ==
    [][(ev'.op = "expand_call" /\ ev'.arg.kind = "append" /\ bookContext.loaded) =>
         LET old == bookContext.chapters
             new == bookContext'.chapters
         IN  /\ Len(new) = Len(old) + ev'.arg.k
             /\ SubSeq(new, 1, Len(old)) = old
             /\ \A j \in 1..ev'.arg.k : new[Len(old) + j].index = Len(old) + j]_vars

\* C8 (as the claim states it): after cancel_generation in phase writing the
\* phase is interview and isProcessing is false.
C8_CancelReturnsToInterview ==
    [][(ev'.op = "cancel_generation" /\ mode = "writing") =>
         mode' = "interview" /\ ~isProcessing']_vars

\* C9 (as the claim states it): next_chapter leaves the manuscript followed by
\* the draft and resets the chapter state.
NextChapterFrame ==
    /\ currentDraft' = <<>>
    /\ currentChapterIndex' = currentChapterIndex + 1
    /\ notes' = <<>>
    /\ mode' = "interview"
    /\ LET j == FindChapter(bookContext, currentChapterIndex + 1)
       IN  IF j # 0
           THEN LET opening == Opening(currentChapterIndex + 1, bookContext.chapters[j],
                                       "move on")
                IN  /\ history' = <<Turn("assistant", opening)>>
                    /\ Len(Sent(out', "response")) = 1
                    /\ Sent(out', "response")[1].content = opening
           ELSE history' = <<>> /\ Sent(out', "response") = <<>>
C9_NextChapterPlain ==
    [][ev'.op = "next_insert" =>
         fullManuscript' = fullManuscript \o currentDraft /\ NextChapterFrame]_vars
\* C9 (amended): when next_chapter resumes after the archive write with draft
\* d, manuscript m and chapter index i, the manuscript becomes m, the separator
\* "\n\n" if m is not empty, then d; the draft and the notes become empty, the
\* index i+1, the phase interview, the transcript holds only the opening of
\* chapter i+1 if the outline has one, and exactly one response carries it.
C9_NextChapterResult ==
    [][ev'.op = "next_insert" =>
         /\ fullManuscript' = (IF fullManuscript = <<>> THEN currentDraft
                               ELSE fullManuscript \o <<Sep>> \o currentDraft)
         /\ NextChapterFrame]_vars
C9_Witness ==
    /\ ev.op = "next_insert"
    /\ Len(history) = 1 /\ notes = <<>> /\ currentDraft = <<>>
    /\ \E i \in 1..Len(fullManuscript) : fullManuscript[i] = Sep
    /\ Len(Sent(out, "response")) = 1

\* C10 (as the claim states it): a Writer Agent run broadcasts a draft_chunk
\* with reset=true first, then one draft_chunk per fragment in stream order;
\* when it ends, draft_complete is broadcast after the last draft_chunk and
\* the persisted draft is the concatenation of the fragments delivered.
Chunk(content, reset) == [to |-> All, type |-> "draft_chunk", content |-> content,
                          reset |-> reset]
C10_WriterRun ==
    [][\A h \in Slots :
         /\ (hs[h].pc = "stream_read" /\ ev'.id = hs[h].id /\ ev'.arg = "fragment") =>
               Sent(out', "draft_chunk") = <<Chunk(<<Frag(hs[h].id, hs[h].k + 1)>>, FALSE)>>
         /\ (hs'[h].pc = "stream_read" /\ hs[h].pc # "stream_read") =>
               /\ Len(Sent(out', "draft_chunk")) >= 1
               /\ Sent(out', "draft_chunk")[Len(Sent(out', "draft_chunk"))].reset
         /\ (hs[h].pc = "stream_read" /\ ev'.id = hs[h].id
                 /\ ev'.arg \in {"done", "error"}) =>
               /\ Sent(out', "draft_chunk") = <<>>
               /\ Len(Sent(out', "draft_complete")) = 1
               /\ storage'.currentDraft = [j \in 1..hs[h].k |-> Frag(hs[h].id, j)]]_vars

\* what viewer ws receives of the messages o, debug logs aside
Received(o, ws) == SelectSeq(o, LAMBDA m : m.to \in {All, ws} /\ m.type # "debug_log")
Types(o)        == [j \in 1..Len(o) |-> o[j].type]
FreshSession ==
    /\ history = <<>> /\ notes = <<>> /\ mode = "interview"
    /\ currentChapterIndex = 1 /\ fullManuscript = <<>> /\ currentDraft = <<>>

\* C11: an init on a fresh session sends its sender outline, notes_sync,
\* mode_sync and chapter_index_sync with value 1, in this order and nothing
\* else, and then, the session still fresh, one opening response that carries
\* the title of chapter 1; no history and no second response.
C11_FreshInit ==
    [][\A h \in Slots :
         (hs[h].type = "init" /\ ev'.id = hs[h].id /\ FreshSession) =>
            LET got == Received(out', hs[h].ws)
            IN  /\ hs[h].pc = "init_refresh" =>
                      /\ Types(got) = <<"outline", "notes_sync", "mode_sync",
                                        "chapter_index_sync">>
                      /\ got[1].content = bookContext'
                      /\ got[2].content = <<>>
                      /\ got[3].content = "interview"
                      /\ got[4].content = 1
                /\ hs[h].pc = "init_context" =>
                      /\ Types(got) = <<"response">>
                      /\ got[1].content.kind = "greeting"
                      /\ got[1].content.n1 = 1
                      /\ got[1].content.n2 =
                            bookContext.chapters[FindChapter(bookContext, 1)].title
                      /\ history' = <<Turn("assistant", got[1].content)>>]_vars
C11_Witness ==
    /\ ev.op = "init_context"
    /\ currentChapterIndex = 1 /\ notes = <<>> /\ mode = "interview"
    /\ history = <<Turn("assistant", Opening(1, OrigChapter(1), "begin"))>>
    /\ Types(Received(out, 1)) = <<"response">>
    /\ Types(Received(out, 2)) = <<"response">>
    /\ attached = {1, 2}

\* C12 (as the claim states it): whatever inits are handled during a chapter,
\* interleaved or not, the transcript holds one opening assistant turn at most.
Openings(hist) == {j \in 1..Len(hist) : hist[j].content.kind = "greeting"}
C12_OneOpeningPerChapter == Cardinality(Openings(history)) <= 1

\* C13 (as the claim states it): a step that changes the notes, the phase or
\* the chapter index sends every attached viewer the new value as notes_sync,
\* mode_sync or chapter_index_sync.
Delivered(o, viewers, type, value) ==
    \A v \in viewers :
        \E j \in 1..Len(o) :
            o[j].type = type /\ o[j].content = value /\ o[j].to \in {All, v}
C13_ChangesReachAllViewers ==
    [][/\ notes' # notes => Delivered(out', attached', "notes_sync", notes')
       /\ mode' # mode => Delivered(out', attached', "mode_sync", mode')
       /\ currentChapterIndex' # currentChapterIndex =>
             Delivered(out', attached', "chapter_index_sync", currentChapterIndex')]_vars

\* C14: isProcessing is true only while the message handler that set it is
\* suspended at an external call, and every return of such a call brings that
\* handler nearer to its end (at most MaxTurns completions, then a stream that
\* ends); so, the external calls returning, isProcessing is reset to false.
Remaining(f) ==
    CASE f.pc = "agent_context"  -> MaxFrags + MaxTurns + 4
      [] f.pc = "agent_call"     -> MaxFrags + 3 + (MaxTurns - f.turns)
      [] f.pc = "writer_context" -> MaxFrags + 2
      [] f.pc = "stream_read"    -> 1 + (MaxFrags - f.k)
      [] OTHER                   -> 0
TurnRunning(f) ==
    /\ f.type = "message"
    /\ f.pc \in {"agent_context", "agent_call", "writer_context", "stream_read"}
C14_ProcessingEnds ==
    [][/\ isProcessing' => \E h \in Slots : TurnRunning(hs'[h])
       /\ \A h \in Slots :
             (TurnRunning(hs[h]) /\ ev'.id = hs[h].id) =>
                 /\ Remaining(hs'[h]) < Remaining(hs[h])
                 /\ Remaining(hs'[h]) = 0 => ~isProcessing']_vars
C14_Witness ==
    /\ isProcessing
    /\ \E h \in Slots :
          /\ hs[h].type = "message" /\ hs[h].inTurn
          /\ hs[h].pc = "stream_read" /\ hs[h].cancelled /\ hs[h].k >= 1

\* the fragments the stream of frame f has delivered so far
Streamed(f) == [j \in 1..f.k |-> Frag(f.id, j)]

\* C15 (as the claim states it): once a cancel_generation was processed while
\* a stream was in flight, that stream appends nothing more to currentDraft
\* and broadcasts no further draft_chunk.
C15_CancelStopsStream ==
    [][\A h \in Slots :
         (hs[h].pc = "stream_read" /\ hs[h].cancelled /\ ev'.id = hs[h].id) =>
            /\ currentDraft' = currentDraft
            /\ Sent(out', "draft_chunk") = <<>>]_vars

\* C16 (as the claim states it): once a cancel_generation is processed while a
\* stream that has delivered fragments is in flight, currentDraft and the
\* persisted currentDraft are the concatenation of those fragments.
C16_CancelKeepsPartialDraft ==
    [][ev'.op = "cancel_generation" =>
         \A h \in Slots :
            (hs[h].pc = "stream_read" /\ hs[h].k >= 1) =>
               /\ currentDraft' = Streamed(hs[h])
               /\ storage'.currentDraft = Streamed(hs[h])]_vars

\* C17 (as the claim states it): when the writer run started by a
\* retry_chapter ends, currentDraft is the concatenation of the fragments of
\* that run's stream and of nothing else.
C17_RetryStartsFromScratch ==
    [][\A h \in Slots :
         (hs[h].type = "retry_chapter" /\ hs[h].pc = "stream_read"
             /\ ev'.id = hs[h].id /\ ev'.arg \in {"done", "error"}) =>
            currentDraft' = Streamed(hs[h])]_vars

\* the step of expansion handler h that follows the UPDATE of books, k >= 1
\* chapters having been appended
ExpansionDone(h) ==
    /\ hs[h].pc = "expand_update" /\ ev'.id = hs[h].id
    /\ hs[h].new >= 1
FirstNew(h) == Formatted(hs[h].nextIndex, hs[h].new)[1]

\* C18 (as the claim states it): after a successful expansion the phase is
\* interview, the notes and the draft are empty and the transcript holds only
\* the introductory assistant turn of the first chapter added.
C18_ExpansionResets ==
    [][\A h \in Slots :
         ExpansionDone(h) =>
            /\ mode' = "interview"
            /\ notes' = <<>>
            /\ currentDraft' = <<>>
            /\ Len(history') = 1
            /\ history'[1].role = "assistant"
            /\ history'[1].content.kind = "greeting"
            /\ history'[1].content.n2 = FirstNew(h).title]_vars

\* C19 (as the claim states it): a successful expansion sends every attached
\* viewer the new outline, the phase and the introductory turn of the first
\* chapter added, numbered with that chapter's index, and no error.
IntroDelivered(o, viewers, ch) ==
    \A v \in viewers :
        \E j \in 1..Len(o) :
            /\ o[j].to \in {All, v}
            /\ \/ /\ o[j].type = "response"
                  /\ o[j].content.kind = "greeting"
                  /\ o[j].content.n1 = ch.index /\ o[j].content.n2 = ch.title
               \/ /\ o[j].type = "history"
                  /\ \E i \in 1..Len(o[j].content) :
                        /\ o[j].content[i].content.kind = "greeting"
                        /\ o[j].content[i].content.n1 = ch.index
                        /\ o[j].content[i].content.n2 = ch.title
C19_ExpansionAnnounced ==
    [][\A h \in Slots :
         ExpansionDone(h) =>
            /\ Delivered(out', attached', "outline", bookContext')
            /\ Delivered(out', attached', "mode_sync", "interview")
            /\ IntroDelivered(out', attached', FirstNew(h))
            /\ Sent(out', "error") = <<>>]_vars

\* C20 (as the claim states it): a step of an expansion that broadcasts an
\* error after the model returned no valid append_chapters call, an empty
\* chapter list, or the call failed, leaves the cached outline, the outline in
\* D1, the phase and the chapter index as they were.
C20_FailedExpansionChangesNothing ==
    [][\A h \in Slots :
         (/\ hs[h].type = "expand_outline" /\ ev'.id = hs[h].id
          /\ Sent(out', "error") # <<>>
          /\ \/ hs[h].pc = "expand_call" /\ ev'.arg.kind \in {"error", "nocall"}
             \/ hs[h].pc = "expand_update" /\ hs[h].new = 0) =>
            /\ bookContext' = bookContext
            /\ db' = db
            /\ mode' = mode
            /\ currentChapterIndex' = currentChapterIndex]_vars

\* C21: one user turn issues at most 5 completion calls; when the fifth
\* returns only calls that let the loop go on (create_note, unknown names),
\* no sixth is issued: the turn ends with isProcessing false.
GoesOn(resp) ==
    /\ resp.kind = "calls"
    /\ \A j \in 1..Len(resp.calls) : resp.calls[j] \in {"create_note", "other"}
C21_LoopIsCapped ==
    [][\A h \in Slots :
         /\ hs'[h].turns <= 5
         /\ (hs[h].pc = "agent_call" /\ ev'.id = hs[h].id /\ hs[h].turns = 5) =>
               /\ hs'[h].pc # "agent_call"
               /\ GoesOn(ev'.arg) => (hs'[h] = Idle /\ ~isProcessing')]_vars
C21_Witness ==
    /\ ev.op = "agent_call" /\ GoesOn(ev.arg)
    /\ \E j \in 1..Len(ev.arg.calls) : ev.arg.calls[j] = "create_note"
    /\ \A h \in Slots : hs[h].id # ev.id
    /\ ~isProcessing /\ Len(notes) = MaxNotes

\* C22: a completion response with a finalize_interview call sets the phase to
\* writing and persists it, broadcasts mode_sync(writing) before any
\* draft_chunk, starts the Writer Agent once, and the turn issues no further
\* completion call.
Positions(o, type) == {j \in 1..Len(o) : o[j].type = type}
Finalizes(resp) ==
    /\ resp.kind = "calls"
    /\ \E j \in 1..Len(resp.calls) : resp.calls[j] = "finalize_interview"
C22_FinalizeStartsWriter ==
    [][\A h \in Slots :
         /\ (hs[h].pc = "agent_call" /\ ev'.id = hs[h].id /\ Finalizes(ev'.arg)) =>
               /\ mode' = "writing" /\ storage'.mode = "writing"
               /\ \E m \in Positions(out', "mode_sync") :
                     /\ out'[m].content = "writing" /\ out'[m].to = All
                     /\ \A d \in Positions(out', "draft_chunk") : m < d
               /\ Cardinality({j \in Positions(out', "debug_log") :
                                  out'[j].content = "Writing chapter..."}) = 1
               /\ hs'[h].inTurn
               /\ hs'[h].pc \in {"writer_context", "stream_read"}
         /\ (hs[h].inTurn /\ ev'.id = hs[h].id) =>
               /\ hs'[h].pc \in {"stream_read", "idle"}
               /\ \A j \in Positions(out', "debug_log") :
                     out'[j].content # "Writing chapter..."]_vars
C22_Witness ==
    /\ ev.op = "agent_call"
    /\ ev.arg.calls = <<"create_note", "finalize_interview">>
    /\ mode = "writing" /\ storage.mode = "writing" /\ isProcessing
    /\ \E h \in Slots : hs[h].id = ev.id /\ hs[h].inTurn /\ hs[h].pc = "writer_context"

\* C23: when a completion call of the Interview Agent fails, or a call of the
\* response has malformed arguments, the loop stops and the turn ends: no
\* response is broadcast, the notes held before and those created by the
\* calls before the failure are persisted, the phase is interview and
\* isProcessing is false.
Fails(resp) ==
    \/ resp.kind = "error"
    \/ /\ resp.kind = "calls"
       /\ \E j \in 1..Len(resp.calls) : resp.calls[j] = "malformed"
C23_FailedCompletionEndsTurn ==
    [][\A h \in Slots :
         (hs[h].pc = "agent_call" /\ ev'.id = hs[h].id /\ Fails(ev'.arg)) =>
            /\ hs'[h] = Idle
            /\ Sent(out', "response") = <<>>
            /\ IsPrefix(notes, notes')
            /\ Len(notes') = Len(notes) + Count(ev'.arg.calls, "create_note")
            /\ storage'.notes = notes'
            /\ mode' = "interview"
            /\ ~isProcessing']_vars
C23_Witness ==
    /\ ev.op = "agent_call"
    /\ ev.arg.calls = <<"create_note", "malformed">>
    /\ Len(notes) = 2 /\ storage.notes = notes
    /\ mode = "interview" /\ ~isProcessing /\ InFlight = {}

\* C24: a patch_note gives the note of that id the patched text in memory and
\* in storage at once, whatever handlers are in flight, and no step of an agent
\* loop or of a writer run changes or drops a note held before: the loop only
\* appends the notes it creates.
TurnOps == {"agent_context", "agent_call", "writer_context", "stream_read"}
C24_PatchIsKept ==
    [][/\ ev'.op = "patch_note" =>
            /\ Len(notes') = Len(notes)
            /\ \A j \in 1..Len(notes) :
                  /\ notes'[j].id = notes[j].id
                  /\ notes'[j].content =
                        IF notes[j].id = ev'.arg THEN "p" ELSE notes[j].content
            /\ storage'.notes = notes'
       /\ ev'.op \in TurnOps =>
            /\ IsPrefix(notes, notes')
            /\ IsPrefix(notes, storage'.notes)]_vars
C24_Witness ==
    /\ ev.op = "agent_call" /\ InFlight = {}
    /\ notes = <<Note(1, "p"), Note(2, "ai")>>
    /\ storage.notes = notes

\* C25 (as the claim states it): after a fragment is broadcast as draft_chunk
\* the persisted currentDraft holds it: it is the currentDraft in memory, so
\* that a reload from storage keeps the fragments broadcast so far.
C25_DraftPersistedProgressively ==
    [][(ev'.op = "stream_read" /\ ev'.arg = "fragment") =>
         storage'.currentDraft = currentDraft']_vars

\* C27 (as the claim states it): a fragment is appended to currentDraft only
\* while the phase is writing.
C27_DraftGrowsOnlyInWriting ==
    [][(ev'.op = "stream_read" /\ ev'.arg = "fragment") =>
         (mode = "writing" /\ mode' = "writing")]_vars

\* C28: currentChapterIndex never decreases: a step leaves it alone or is the
\* archival of a next_chapter request, which adds one to it; so does an init
\* that reloads the state while a next_chapter request is waiting for its
\* archive insert, and after one has finished.
C28_IndexNeverDecreases ==
    [][\/ currentChapterIndex' = currentChapterIndex
       \/ /\ ev'.op = "next_insert"
          /\ currentChapterIndex' = currentChapterIndex + 1
          /\ storage'.currentChapterIndex = currentChapterIndex']_vars

\* an init has just reloaded the state of a session that archived its first
\* chapter, while another next_chapter request is in progress
C28_Witness ==
    /\ ev.op = "init"
    /\ currentChapterIndex = 2
    /\ \E h \in InFlight : hs[h].type = "next_chapter" /\ hs[h].pc = "next_insert"

\* C29 (as the claim states it): every tool-result turn of the transcript is
\* immediately preceded by the turn that holds the matching tool invocation.
C29_ResultFollowsInvocation ==
    \A j \in 1..Len(history) :
        history[j].fr # "none" =>
            /\ j > 1
            /\ history[j - 1].fc = history[j].fr

\* C30 (as the claim states it): within a chapter the transcript is
\* append-only: apart from the clearing events (the archival of a chapter, an
\* outline expansion) every step leaves the turns recorded so far in place, an
\* init that reloads the state from storage included.
C30_TranscriptAppendOnly ==
    [][ev'.op \notin {"next_insert", "expand_update"} =>
         IsPrefix(history, history')]_vars

\* ------------------------------------------------ the viewer (Workspace page)
\* The state the page keeps from the messages of its socket: useState of
\* notes, outline, manuscript, messages, mode and currentChapterIndex.
View(outline, ns, manuscript, messages, m, index) ==
    [outline |-> outline, notes |-> ns, manuscript |-> manuscript,
     messages |-> messages, mode |-> m, currentChapterIndex |-> index]

\* { role, content } of the turns of a history message
Shown(turns) == [j \in 1..Len(turns) |-> [role |-> turns[j].role,
                                          content |-> turns[j].content]]

\* socket.onmessage for one message of the session
OnSocketMessage(v, m) ==
    CASE m.type = "outline"            -> [v EXCEPT !.outline = m.content]
      [] m.type = "chapter_index_sync" -> [v EXCEPT !.currentChapterIndex = m.content]
      [] m.type = "notes_sync"         -> [v EXCEPT !.notes = m.content]
      [] m.type = "mode_sync"          -> [v EXCEPT !.mode = m.content]
      [] m.type = "history"            -> [v EXCEPT !.messages = Shown(m.content)]
      [] m.type = "response"           ->
             [v EXCEPT !.messages = Append(@, [role |-> "assistant",
                                               content |-> m.content])]
      [] m.type = "draft_chunk"        ->
             [v EXCEPT !.manuscript = IF m.reset THEN m.content
                                      ELSE @ \o m.content]
      [] OTHER                         -> v

\* the view after the messages o, handled in the order they were sent
RECURSIVE ViewAfter(_, _)
ViewAfter(v, o) ==
    IF o = <<>> THEN v ELSE ViewAfter(OnSocketMessage(v, Head(o)), Tail(o))

\* What a viewer may hold when its init is handled: the view of a page that
\* was just loaded, and views left from an earlier connection, with the
\* opening of chapter 1 in the transcript or a streamed fragment as the text.
StaleMessages ==
    {<<>>, <<[role |-> "assistant",
              content |-> Opening(1, OrigChapter(1), "begin")]>>}
StaleManuscripts == {<<>>, <<Frag(1, 1)>>}
StaleViews ==
    {View(NoContext, <<>>, ms, msgs, "interview", 1) :
        ms \in StaleManuscripts, msgs \in StaleMessages}

\* C26 (as the claim states it): once an init has been processed, the state
\* its sender builds from the messages it received is the session's state,
\* whatever it held before: the outline, the notes, the phase, the chapter
\* index and the manuscript followed by the draft when the handler has sent
\* its sync messages, and the visible transcript when the handler ends.
C26_InitResynchronises ==
    [][\A h \in Slots : \A v \in StaleViews :
         (hs[h].type = "init" /\ ev'.id = hs[h].id) =>
            LET w == ViewAfter(v, Received(out', hs[h].ws))
            IN  /\ ev'.op = "init_refresh" =>
                     /\ w.outline = bookContext'
                     /\ w.notes = notes'
                     /\ w.mode = mode'
                     /\ w.currentChapterIndex = currentChapterIndex'
                     /\ w.manuscript =
                           fullManuscript'
                             \o (IF fullManuscript' # <<>> /\ currentDraft' # <<>>
                                 THEN <<Sep>> ELSE <<>>)
                             \o currentDraft'
                /\ hs'[h] = Idle => w.messages = Shown(Visible(history'))]_vars

\* C31 (as the claim states it): when the processing of a message has
\* completed and no other handler is in progress, every persisted field is
\* its value in memory, so that a cold start reproduces the session state.
C31_StorageMatchesMemory ==
    InFlight = {} =>
        /\ storage.history = history
        /\ storage.notes = notes
        /\ storage.mode = mode
        /\ storage.currentDraft = currentDraft
        /\ storage.fullManuscript = fullManuscript
        /\ storage.currentChapterIndex = currentChapterIndex
        /\ storage.bookContext = bookContext

\* C32 (as the claim states it): when a user turn has just ended on a failed
\* completion call, the same message sent again in phase interview with
\* isProcessing false starts a new agent loop: the handler sets isProcessing
\* and goes on to a completion call.
C32_ResendStartsLoop ==
    [][(/\ ev.op = "agent_call" /\ ev.arg.kind = "error"
        /\ ev'.op = "message"
        /\ mode = "interview" /\ ~isProcessing) =>
          /\ isProcessing'
          /\ \E h \in Slots : /\ hs'[h].id = ev'.id
                              /\ hs'[h].pc \in {"agent_context", "agent_call"}]_vars

\* C33 (as the claim states it, its first part): each chapter is archived at
\* most once: no two records of the archive have the same chapterIndex.
C33_ArchivedOnce ==
    \A i, j \in 1..Len(archive) :
        i # j => archive[i].chapterIndex # archive[j].chapterIndex

\* C34 (as the claim states it): a next_chapter received in phase interview,
\* or while a writer stream is in flight, writes no archive record, and the
\* manuscript and the chapter index stay as they are until its handler ends.
C34_ArchivalOnlyWhenDraftReady ==
    [][\A h \in Slots :
         /\ (/\ ev'.op = "next_chapter" /\ hs'[h].id = ev'.id
             /\ \/ mode = "interview"
                \/ \E g \in Slots : hs[g].pc \in {"writer_context", "stream_read"}) =>
               archive' = archive
         /\ (hs[h].pc = "next_insert" /\ ev'.id = hs[h].id /\ mode = "interview") =>
               /\ fullManuscript' = fullManuscript
               /\ currentChapterIndex' = currentChapterIndex]_vars

\* C35 (as the claim states it): the processing of an init leaves the phase,
\* the notes, the draft, the manuscript and the chapter index as they are, at
\* each step of its handler, also while a writer stream is in flight.
C35_InitChangesNothing ==
    [][(ev'.op \in {"init", "init_refresh", "init_context"}) =>
         /\ mode' = mode
         /\ notes' = notes
         /\ currentDraft' = currentDraft
         /\ fullManuscript' = fullManuscript
         /\ currentChapterIndex' = currentChapterIndex]_vars

\* C36 (as the claim states it): at most one Writer Agent run is in progress
\* at any time: a run is in progress from its start, by retry_chapter or by
\* finalize_interview, until its stream has ended or failed.
WriterRuns == {h \in Slots : hs[h].pc \in {"writer_context", "stream_read"}}
C36_OneWriterRun == Cardinality(WriterRuns) <= 1

\* C37 (as the claim states it): in every reachable state the chapter index is
\* at least 1 and at most one more than the number of chapters of the outline.
C37_IndexWithinOutline ==
    /\ 1 <= currentChapterIndex
    /\ currentChapterIndex <= Len(db) + 1

\* the text an init sends for the manuscript m and the draft d
InitText(m, d) ==
    m \o (IF m # <<>> /\ d # <<>> THEN <<Sep>> ELSE <<>>) \o d

\* C38 (as the claim states it, for a run that ends with an empty draft): a
\* Writer Agent run has started in one step and its stream ends in the next
\* without a fragment; the text a viewer attached in both steps has built from
\* the draft_chunk messages of the two steps is the text an init sends then.
C38_ChunksMatchInit ==
    [][\A h \in Slots : \A ws \in attached \cap attached' : \A v \in StaleViews :
         (/\ hs[h].pc = "stream_read" /\ hs[h].k = 0
          /\ ev.id = hs[h].id /\ ev'.id = hs[h].id
          /\ ev'.arg \in {"done", "error"}) =>
            ViewAfter(ViewAfter(v, Received(out, ws)), Received(out', ws)).manuscript
               = InitText(fullManuscript', currentDraft')]_vars

\* C39 (as the claim states it): draft_complete is never sent while a writer
\* stream is in flight: after a step that sends it, by the end of a run or by
\* an init, no handler is reading a stream.
C39_CompleteOnlyAfterStream ==
    [][Sent(out', "draft_complete") # <<>> =>
         \A h \in Slots : hs'[h].pc # "stream_read"]_vars

====
